---- MODULE Spec2Model ----
(***************************************************************************)
(* A model of src/main.py: the invoke entry point of the coordinator agent *)
(* and its delegation client send_sync_message.                            *)
(*                                                                         *)
(* Python values are records tagged with a "kind" field.  A Python string  *)
(* is the sequence of its characters, each the number of its code point    *)
(* (68 is "D"); the text of a literal is given in the comment beside it.   *)
(* The tables of character properties are those of Unicode 14.0.0, the     *)
(* version of the interpreter's unicodedata.                               *)
(* The remote endpoint, the coordinator LLM and the host that cancels a    *)
(* call are the environment: their answers are drawn with \E.              *)
(***************************************************************************)
EXTENDS Integers, Sequences, FiniteSets, TLC

VARIABLES
    calls,      \* calls[c]: the frame of the c-th invoke request
    issued,     \* values uuid4 has handed out so far
    payload,    \* payload[c]: the request the host submits as call c
    replies,    \* messages the coordinator agent may answer with
    stub,       \* event sequences the remote transport may answer with
    faults      \* calls whose coordinator or remote endpoint may fail or be
                \* slow, and which the host may cancel

vars == <<calls, issued, payload, replies, stub, faults>>

---------------------------------------------------------------------------
(* Bounds of the model *)

NumCalls == 2
MaxEvents == 2
MaxParts == 2
TickSeconds == 150
MaxElapsed == 600

(* src/main.py:18 *)
DEFAULT_TIMEOUT == 300

Calls == 1..NumCalls

---------------------------------------------------------------------------
(* Characters and strings *)

(* a <<first, last>> range of the table holds the character *)
InRanges(ch, table) ==
    \E i \in 1..Len(table) : table[i][1] <= ch /\ ch <= table[i][2]

(* <<first, last, delta, step>>: upper-case characters first, first + step, *)
(* ..., last, whose lower case is delta further; ASCII and the two         *)
(* characters with a rule of their own (U+0130, U+03A3) are not listed     *)
LowerRuns ==
    <<
      <<192, 214, 32, 1>>, <<216, 222, 32, 1>>, <<256, 302, 1, 2>>,
      <<306, 310, 1, 2>>, <<313, 327, 1, 2>>, <<330, 374, 1, 2>>,
      <<376, 376, -121, 1>>, <<377, 381, 1, 2>>, <<385, 385, 210, 1>>,
      <<386, 388, 1, 2>>, <<390, 390, 206, 1>>, <<391, 391, 1, 1>>,
      <<393, 394, 205, 1>>, <<395, 395, 1, 1>>, <<398, 398, 79, 1>>,
      <<399, 399, 202, 1>>, <<400, 400, 203, 1>>, <<401, 401, 1, 1>>,
      <<403, 403, 205, 1>>, <<404, 404, 207, 1>>, <<406, 406, 211, 1>>,
      <<407, 407, 209, 1>>, <<408, 408, 1, 1>>, <<412, 412, 211, 1>>,
      <<413, 413, 213, 1>>, <<415, 415, 214, 1>>, <<416, 420, 1, 2>>,
      <<422, 422, 218, 1>>, <<423, 423, 1, 1>>, <<425, 425, 218, 1>>,
      <<428, 428, 1, 1>>, <<430, 430, 218, 1>>, <<431, 431, 1, 1>>,
      <<433, 434, 217, 1>>, <<435, 437, 1, 2>>, <<439, 439, 219, 1>>,
      <<440, 440, 1, 1>>, <<444, 444, 1, 1>>, <<452, 452, 2, 1>>,
      <<453, 453, 1, 1>>, <<455, 455, 2, 1>>, <<456, 456, 1, 1>>,
      <<458, 458, 2, 1>>, <<459, 475, 1, 2>>, <<478, 494, 1, 2>>,
      <<497, 497, 2, 1>>, <<498, 500, 1, 2>>, <<502, 502, -97, 1>>,
      <<503, 503, -56, 1>>, <<504, 542, 1, 2>>, <<544, 544, -130, 1>>,
      <<546, 562, 1, 2>>, <<570, 570, 10795, 1>>, <<571, 571, 1, 1>>,
      <<573, 573, -163, 1>>, <<574, 574, 10792, 1>>, <<577, 577, 1, 1>>,
      <<579, 579, -195, 1>>, <<580, 580, 69, 1>>, <<581, 581, 71, 1>>,
      <<582, 590, 1, 2>>, <<880, 882, 1, 2>>, <<886, 886, 1, 1>>,
      <<895, 895, 116, 1>>, <<902, 902, 38, 1>>, <<904, 906, 37, 1>>,
      <<908, 908, 64, 1>>, <<910, 911, 63, 1>>, <<913, 929, 32, 1>>,
      <<932, 939, 32, 1>>, <<975, 975, 8, 1>>, <<984, 1006, 1, 2>>,
      <<1012, 1012, -60, 1>>, <<1015, 1015, 1, 1>>, <<1017, 1017, -7, 1>>,
      <<1018, 1018, 1, 1>>, <<1021, 1023, -130, 1>>, <<1024, 1039, 80, 1>>,
      <<1040, 1071, 32, 1>>, <<1120, 1152, 1, 2>>, <<1162, 1214, 1, 2>>,
      <<1216, 1216, 15, 1>>, <<1217, 1229, 1, 2>>, <<1232, 1326, 1, 2>>,
      <<1329, 1366, 48, 1>>, <<4256, 4293, 7264, 1>>,
      <<4295, 4295, 7264, 1>>, <<4301, 4301, 7264, 1>>,
      <<5024, 5103, 38864, 1>>, <<5104, 5109, 8, 1>>,
      <<7312, 7354, -3008, 1>>, <<7357, 7359, -3008, 1>>,
      <<7680, 7828, 1, 2>>, <<7838, 7838, -7615, 1>>, <<7840, 7934, 1, 2>>,
      <<7944, 7951, -8, 1>>, <<7960, 7965, -8, 1>>, <<7976, 7983, -8, 1>>,
      <<7992, 7999, -8, 1>>, <<8008, 8013, -8, 1>>, <<8025, 8031, -8, 2>>,
      <<8040, 8047, -8, 1>>, <<8072, 8079, -8, 1>>, <<8088, 8095, -8, 1>>,
      <<8104, 8111, -8, 1>>, <<8120, 8121, -8, 1>>, <<8122, 8123, -74, 1>>,
      <<8124, 8124, -9, 1>>, <<8136, 8139, -86, 1>>, <<8140, 8140, -9, 1>>,
      <<8152, 8153, -8, 1>>, <<8154, 8155, -100, 1>>, <<8168, 8169, -8, 1>>,
      <<8170, 8171, -112, 1>>, <<8172, 8172, -7, 1>>,
      <<8184, 8185, -128, 1>>, <<8186, 8187, -126, 1>>,
      <<8188, 8188, -9, 1>>, <<8486, 8486, -7517, 1>>,
      <<8490, 8490, -8383, 1>>, <<8491, 8491, -8262, 1>>,
      <<8498, 8498, 28, 1>>, <<8544, 8559, 16, 1>>, <<8579, 8579, 1, 1>>,
      <<9398, 9423, 26, 1>>, <<11264, 11311, 48, 1>>, <<11360, 11360, 1, 1>>,
      <<11362, 11362, -10743, 1>>, <<11363, 11363, -3814, 1>>,
      <<11364, 11364, -10727, 1>>, <<11367, 11371, 1, 2>>,
      <<11373, 11373, -10780, 1>>, <<11374, 11374, -10749, 1>>,
      <<11375, 11375, -10783, 1>>, <<11376, 11376, -10782, 1>>,
      <<11378, 11378, 1, 1>>, <<11381, 11381, 1, 1>>,
      <<11390, 11391, -10815, 1>>, <<11392, 11490, 1, 2>>,
      <<11499, 11501, 1, 2>>, <<11506, 11506, 1, 1>>, <<42560, 42604, 1, 2>>,
      <<42624, 42650, 1, 2>>, <<42786, 42798, 1, 2>>, <<42802, 42862, 1, 2>>,
      <<42873, 42875, 1, 2>>, <<42877, 42877, -35332, 1>>,
      <<42878, 42886, 1, 2>>, <<42891, 42891, 1, 1>>,
      <<42893, 42893, -42280, 1>>, <<42896, 42898, 1, 2>>,
      <<42902, 42920, 1, 2>>, <<42922, 42922, -42308, 1>>,
      <<42923, 42923, -42319, 1>>, <<42924, 42924, -42315, 1>>,
      <<42925, 42925, -42305, 1>>, <<42926, 42926, -42308, 1>>,
      <<42928, 42928, -42258, 1>>, <<42929, 42929, -42282, 1>>,
      <<42930, 42930, -42261, 1>>, <<42931, 42931, 928, 1>>,
      <<42932, 42946, 1, 2>>, <<42948, 42948, -48, 1>>,
      <<42949, 42949, -42307, 1>>, <<42950, 42950, -35384, 1>>,
      <<42951, 42953, 1, 2>>, <<42960, 42960, 1, 1>>, <<42966, 42968, 1, 2>>,
      <<42997, 42997, 1, 1>>, <<65313, 65338, 32, 1>>,
      <<66560, 66599, 40, 1>>, <<66736, 66771, 40, 1>>,
      <<66928, 66938, 39, 1>>, <<66940, 66954, 39, 1>>,
      <<66956, 66962, 39, 1>>, <<66964, 66965, 39, 1>>,
      <<68736, 68786, 64, 1>>, <<71840, 71871, 32, 1>>,
      <<93760, 93791, 32, 1>>, <<125184, 125217, 34, 1>> >>

(* the characters with the property Cased that are not Case_Ignorable *)
CasedChars ==
    <<
      <<65, 90>>, <<97, 122>>, <<170, 170>>, <<181, 181>>, <<186, 186>>,
      <<192, 214>>, <<216, 246>>, <<248, 442>>, <<444, 447>>, <<452, 659>>,
      <<661, 687>>, <<880, 883>>, <<886, 887>>, <<891, 893>>, <<895, 895>>,
      <<902, 902>>, <<904, 906>>, <<908, 908>>, <<910, 929>>, <<931, 1013>>,
      <<1015, 1153>>, <<1162, 1327>>, <<1329, 1366>>, <<1376, 1416>>,
      <<4256, 4293>>, <<4295, 4295>>, <<4301, 4301>>, <<4304, 4346>>,
      <<4349, 4351>>, <<5024, 5109>>, <<5112, 5117>>, <<7296, 7304>>,
      <<7312, 7354>>, <<7357, 7359>>, <<7424, 7467>>, <<7531, 7543>>,
      <<7545, 7578>>, <<7680, 7957>>, <<7960, 7965>>, <<7968, 8005>>,
      <<8008, 8013>>, <<8016, 8023>>, <<8025, 8025>>, <<8027, 8027>>,
      <<8029, 8029>>, <<8031, 8061>>, <<8064, 8116>>, <<8118, 8124>>,
      <<8126, 8126>>, <<8130, 8132>>, <<8134, 8140>>, <<8144, 8147>>,
      <<8150, 8155>>, <<8160, 8172>>, <<8178, 8180>>, <<8182, 8188>>,
      <<8450, 8450>>, <<8455, 8455>>, <<8458, 8467>>, <<8469, 8469>>,
      <<8473, 8477>>, <<8484, 8484>>, <<8486, 8486>>, <<8488, 8488>>,
      <<8490, 8493>>, <<8495, 8500>>, <<8505, 8505>>, <<8508, 8511>>,
      <<8517, 8521>>, <<8526, 8526>>, <<8544, 8575>>, <<8579, 8580>>,
      <<9398, 9449>>, <<11264, 11387>>, <<11390, 11492>>, <<11499, 11502>>,
      <<11506, 11507>>, <<11520, 11557>>, <<11559, 11559>>, <<11565, 11565>>,
      <<42560, 42605>>, <<42624, 42651>>, <<42786, 42863>>, <<42865, 42887>>,
      <<42891, 42894>>, <<42896, 42954>>, <<42960, 42961>>, <<42963, 42963>>,
      <<42965, 42969>>, <<42997, 42998>>, <<43002, 43002>>, <<43824, 43866>>,
      <<43872, 43880>>, <<43888, 43967>>, <<64256, 64262>>, <<64275, 64279>>,
      <<65313, 65338>>, <<65345, 65370>>, <<66560, 66639>>, <<66736, 66771>>,
      <<66776, 66811>>, <<66928, 66938>>, <<66940, 66954>>, <<66956, 66962>>,
      <<66964, 66965>>, <<66967, 66977>>, <<66979, 66993>>, <<66995, 67001>>,
      <<67003, 67004>>, <<68736, 68786>>, <<68800, 68850>>, <<71840, 71903>>,
      <<93760, 93823>>, <<119808, 119892>>, <<119894, 119964>>,
      <<119966, 119967>>, <<119970, 119970>>, <<119973, 119974>>,
      <<119977, 119980>>, <<119982, 119993>>, <<119995, 119995>>,
      <<119997, 120003>>, <<120005, 120069>>, <<120071, 120074>>,
      <<120077, 120084>>, <<120086, 120092>>, <<120094, 120121>>,
      <<120123, 120126>>, <<120128, 120132>>, <<120134, 120134>>,
      <<120138, 120144>>, <<120146, 120485>>, <<120488, 120512>>,
      <<120514, 120538>>, <<120540, 120570>>, <<120572, 120596>>,
      <<120598, 120628>>, <<120630, 120654>>, <<120656, 120686>>,
      <<120688, 120712>>, <<120714, 120744>>, <<120746, 120770>>,
      <<120772, 120779>>, <<122624, 122633>>, <<122635, 122654>>,
      <<125184, 125251>>, <<127280, 127305>>, <<127312, 127337>>,
      <<127344, 127369>> >>

(* the characters with the property Case_Ignorable *)
CaseIgnorableChars ==
    <<
      <<39, 39>>, <<46, 46>>, <<58, 58>>, <<94, 94>>, <<96, 96>>,
      <<168, 168>>, <<173, 173>>, <<175, 175>>, <<180, 180>>, <<183, 184>>,
      <<688, 879>>, <<884, 885>>, <<890, 890>>, <<900, 901>>, <<903, 903>>,
      <<1155, 1161>>, <<1369, 1369>>, <<1375, 1375>>, <<1425, 1469>>,
      <<1471, 1471>>, <<1473, 1474>>, <<1476, 1477>>, <<1479, 1479>>,
      <<1524, 1524>>, <<1536, 1541>>, <<1552, 1562>>, <<1564, 1564>>,
      <<1600, 1600>>, <<1611, 1631>>, <<1648, 1648>>, <<1750, 1757>>,
      <<1759, 1768>>, <<1770, 1773>>, <<1807, 1807>>, <<1809, 1809>>,
      <<1840, 1866>>, <<1958, 1968>>, <<2027, 2037>>, <<2042, 2042>>,
      <<2045, 2045>>, <<2070, 2093>>, <<2137, 2139>>, <<2184, 2184>>,
      <<2192, 2193>>, <<2200, 2207>>, <<2249, 2306>>, <<2362, 2362>>,
      <<2364, 2364>>, <<2369, 2376>>, <<2381, 2381>>, <<2385, 2391>>,
      <<2402, 2403>>, <<2417, 2417>>, <<2433, 2433>>, <<2492, 2492>>,
      <<2497, 2500>>, <<2509, 2509>>, <<2530, 2531>>, <<2558, 2558>>,
      <<2561, 2562>>, <<2620, 2620>>, <<2625, 2626>>, <<2631, 2632>>,
      <<2635, 2637>>, <<2641, 2641>>, <<2672, 2673>>, <<2677, 2677>>,
      <<2689, 2690>>, <<2748, 2748>>, <<2753, 2757>>, <<2759, 2760>>,
      <<2765, 2765>>, <<2786, 2787>>, <<2810, 2815>>, <<2817, 2817>>,
      <<2876, 2876>>, <<2879, 2879>>, <<2881, 2884>>, <<2893, 2893>>,
      <<2901, 2902>>, <<2914, 2915>>, <<2946, 2946>>, <<3008, 3008>>,
      <<3021, 3021>>, <<3072, 3072>>, <<3076, 3076>>, <<3132, 3132>>,
      <<3134, 3136>>, <<3142, 3144>>, <<3146, 3149>>, <<3157, 3158>>,
      <<3170, 3171>>, <<3201, 3201>>, <<3260, 3260>>, <<3263, 3263>>,
      <<3270, 3270>>, <<3276, 3277>>, <<3298, 3299>>, <<3328, 3329>>,
      <<3387, 3388>>, <<3393, 3396>>, <<3405, 3405>>, <<3426, 3427>>,
      <<3457, 3457>>, <<3530, 3530>>, <<3538, 3540>>, <<3542, 3542>>,
      <<3633, 3633>>, <<3636, 3642>>, <<3654, 3662>>, <<3761, 3761>>,
      <<3764, 3772>>, <<3782, 3782>>, <<3784, 3789>>, <<3864, 3865>>,
      <<3893, 3893>>, <<3895, 3895>>, <<3897, 3897>>, <<3953, 3966>>,
      <<3968, 3972>>, <<3974, 3975>>, <<3981, 3991>>, <<3993, 4028>>,
      <<4038, 4038>>, <<4141, 4144>>, <<4146, 4151>>, <<4153, 4154>>,
      <<4157, 4158>>, <<4184, 4185>>, <<4190, 4192>>, <<4209, 4212>>,
      <<4226, 4226>>, <<4229, 4230>>, <<4237, 4237>>, <<4253, 4253>>,
      <<4348, 4348>>, <<4957, 4959>>, <<5906, 5908>>, <<5938, 5939>>,
      <<5970, 5971>>, <<6002, 6003>>, <<6068, 6069>>, <<6071, 6077>>,
      <<6086, 6086>>, <<6089, 6099>>, <<6103, 6103>>, <<6109, 6109>>,
      <<6155, 6159>>, <<6211, 6211>>, <<6277, 6278>>, <<6313, 6313>>,
      <<6432, 6434>>, <<6439, 6440>>, <<6450, 6450>>, <<6457, 6459>>,
      <<6679, 6680>>, <<6683, 6683>>, <<6742, 6742>>, <<6744, 6750>>,
      <<6752, 6752>>, <<6754, 6754>>, <<6757, 6764>>, <<6771, 6780>>,
      <<6783, 6783>>, <<6823, 6823>>, <<6832, 6862>>, <<6912, 6915>>,
      <<6964, 6964>>, <<6966, 6970>>, <<6972, 6972>>, <<6978, 6978>>,
      <<7019, 7027>>, <<7040, 7041>>, <<7074, 7077>>, <<7080, 7081>>,
      <<7083, 7085>>, <<7142, 7142>>, <<7144, 7145>>, <<7149, 7149>>,
      <<7151, 7153>>, <<7212, 7219>>, <<7222, 7223>>, <<7288, 7293>>,
      <<7376, 7378>>, <<7380, 7392>>, <<7394, 7400>>, <<7405, 7405>>,
      <<7412, 7412>>, <<7416, 7417>>, <<7468, 7530>>, <<7544, 7544>>,
      <<7579, 7679>>, <<8125, 8125>>, <<8127, 8129>>, <<8141, 8143>>,
      <<8157, 8159>>, <<8173, 8175>>, <<8189, 8190>>, <<8203, 8207>>,
      <<8216, 8217>>, <<8228, 8228>>, <<8231, 8231>>, <<8234, 8238>>,
      <<8288, 8292>>, <<8294, 8303>>, <<8305, 8305>>, <<8319, 8319>>,
      <<8336, 8348>>, <<8400, 8432>>, <<11388, 11389>>, <<11503, 11505>>,
      <<11631, 11631>>, <<11647, 11647>>, <<11744, 11775>>, <<11823, 11823>>,
      <<12293, 12293>>, <<12330, 12333>>, <<12337, 12341>>, <<12347, 12347>>,
      <<12441, 12446>>, <<12540, 12542>>, <<40981, 40981>>, <<42232, 42237>>,
      <<42508, 42508>>, <<42607, 42610>>, <<42612, 42621>>, <<42623, 42623>>,
      <<42652, 42655>>, <<42736, 42737>>, <<42752, 42785>>, <<42864, 42864>>,
      <<42888, 42890>>, <<42994, 42996>>, <<43000, 43001>>, <<43010, 43010>>,
      <<43014, 43014>>, <<43019, 43019>>, <<43045, 43046>>, <<43052, 43052>>,
      <<43204, 43205>>, <<43232, 43249>>, <<43263, 43263>>, <<43302, 43309>>,
      <<43335, 43345>>, <<43392, 43394>>, <<43443, 43443>>, <<43446, 43449>>,
      <<43452, 43453>>, <<43471, 43471>>, <<43493, 43494>>, <<43561, 43566>>,
      <<43569, 43570>>, <<43573, 43574>>, <<43587, 43587>>, <<43596, 43596>>,
      <<43632, 43632>>, <<43644, 43644>>, <<43696, 43696>>, <<43698, 43700>>,
      <<43703, 43704>>, <<43710, 43711>>, <<43713, 43713>>, <<43741, 43741>>,
      <<43756, 43757>>, <<43763, 43764>>, <<43766, 43766>>, <<43867, 43871>>,
      <<43881, 43883>>, <<44005, 44005>>, <<44008, 44008>>, <<44013, 44013>>,
      <<64286, 64286>>, <<64434, 64450>>, <<65024, 65039>>, <<65043, 65043>>,
      <<65056, 65071>>, <<65106, 65106>>, <<65109, 65109>>, <<65279, 65279>>,
      <<65287, 65287>>, <<65294, 65294>>, <<65306, 65306>>, <<65342, 65342>>,
      <<65344, 65344>>, <<65392, 65392>>, <<65438, 65439>>, <<65507, 65507>>,
      <<65529, 65531>>, <<66045, 66045>>, <<66272, 66272>>, <<66422, 66426>>,
      <<67456, 67461>>, <<67463, 67504>>, <<67506, 67514>>, <<68097, 68099>>,
      <<68101, 68102>>, <<68108, 68111>>, <<68152, 68154>>, <<68159, 68159>>,
      <<68325, 68326>>, <<68900, 68903>>, <<69291, 69292>>, <<69446, 69456>>,
      <<69506, 69509>>, <<69633, 69633>>, <<69688, 69702>>, <<69744, 69744>>,
      <<69747, 69748>>, <<69759, 69761>>, <<69811, 69814>>, <<69817, 69818>>,
      <<69821, 69821>>, <<69826, 69826>>, <<69837, 69837>>, <<69888, 69890>>,
      <<69927, 69931>>, <<69933, 69940>>, <<70003, 70003>>, <<70016, 70017>>,
      <<70070, 70078>>, <<70089, 70092>>, <<70095, 70095>>, <<70191, 70193>>,
      <<70196, 70196>>, <<70198, 70199>>, <<70206, 70206>>, <<70367, 70367>>,
      <<70371, 70378>>, <<70400, 70401>>, <<70459, 70460>>, <<70464, 70464>>,
      <<70502, 70508>>, <<70512, 70516>>, <<70712, 70719>>, <<70722, 70724>>,
      <<70726, 70726>>, <<70750, 70750>>, <<70835, 70840>>, <<70842, 70842>>,
      <<70847, 70848>>, <<70850, 70851>>, <<71090, 71093>>, <<71100, 71101>>,
      <<71103, 71104>>, <<71132, 71133>>, <<71219, 71226>>, <<71229, 71229>>,
      <<71231, 71232>>, <<71339, 71339>>, <<71341, 71341>>, <<71344, 71349>>,
      <<71351, 71351>>, <<71453, 71455>>, <<71458, 71461>>, <<71463, 71467>>,
      <<71727, 71735>>, <<71737, 71738>>, <<71995, 71996>>, <<71998, 71998>>,
      <<72003, 72003>>, <<72148, 72151>>, <<72154, 72155>>, <<72160, 72160>>,
      <<72193, 72202>>, <<72243, 72248>>, <<72251, 72254>>, <<72263, 72263>>,
      <<72273, 72278>>, <<72281, 72283>>, <<72330, 72342>>, <<72344, 72345>>,
      <<72752, 72758>>, <<72760, 72765>>, <<72767, 72767>>, <<72850, 72871>>,
      <<72874, 72880>>, <<72882, 72883>>, <<72885, 72886>>, <<73009, 73014>>,
      <<73018, 73018>>, <<73020, 73021>>, <<73023, 73029>>, <<73031, 73031>>,
      <<73104, 73105>>, <<73109, 73109>>, <<73111, 73111>>, <<73459, 73460>>,
      <<78896, 78904>>, <<92912, 92916>>, <<92976, 92982>>, <<92992, 92995>>,
      <<94031, 94031>>, <<94095, 94111>>, <<94176, 94177>>, <<94179, 94180>>,
      <<110576, 110579>>, <<110581, 110587>>, <<110589, 110590>>,
      <<113821, 113822>>, <<113824, 113827>>, <<118528, 118573>>,
      <<118576, 118598>>, <<119143, 119145>>, <<119155, 119170>>,
      <<119173, 119179>>, <<119210, 119213>>, <<119362, 119364>>,
      <<121344, 121398>>, <<121403, 121452>>, <<121461, 121461>>,
      <<121476, 121476>>, <<121499, 121503>>, <<121505, 121519>>,
      <<122880, 122886>>, <<122888, 122904>>, <<122907, 122913>>,
      <<122915, 122916>>, <<122918, 122922>>, <<123184, 123197>>,
      <<123566, 123566>>, <<123628, 123631>>, <<125136, 125142>>,
      <<125252, 125259>>, <<127995, 127999>>, <<917505, 917505>>,
      <<917536, 917631>>, <<917760, 917999>> >>

IsCased(ch) == InRanges(ch, CasedChars)
IsCaseIgnorable(ch) == InRanges(ch, CaseIgnorableChars)

(* the lower case of one character taken alone (not U+0130, U+03A3) *)
LowerChar(ch) ==
    IF ch < 128
    THEN (IF 65 <= ch /\ ch <= 90 THEN ch + 32 ELSE ch)
    ELSE IF \E i \in 1..Len(LowerRuns) :
                /\ LowerRuns[i][1] <= ch /\ ch <= LowerRuns[i][2]
                /\ (ch - LowerRuns[i][1]) % LowerRuns[i][4] = 0
    THEN ch + LowerRuns[CHOOSE i \in 1..Len(LowerRuns) :
                  /\ LowerRuns[i][1] <= ch /\ ch <= LowerRuns[i][2]
                  /\ (ch - LowerRuns[i][1]) % LowerRuns[i][4] = 0][3]
    ELSE ch

(* a capital sigma is final when a cased character precedes it and none    *)
(* follows it, case-ignorable characters skipped on both sides             *)
FinalSigma(s, i) ==
    /\ \E j \in 1..(i - 1) :
          /\ IsCased(s[j])
          /\ \A k \in (j + 1)..(i - 1) : IsCaseIgnorable(s[k])
    /\ ~ \E j \in (i + 1)..Len(s) :
          /\ IsCased(s[j])
          /\ \A k \in (i + 1)..(j - 1) : IsCaseIgnorable(s[k])

(* the lower case of the character at position i of s *)
LowerAt(s, i) ==
    IF s[i] = 304 THEN <<105, 775>>
    ELSE IF s[i] = 931 THEN (IF FinalSigma(s, i) THEN <<962>> ELSE <<963>>)
    ELSE <<LowerChar(s[i])>>

RECURSIVE LowerFrom(_, _)
LowerFrom(s, i) ==
    IF i > Len(s) THEN <<>> ELSE LowerAt(s, i) \o LowerFrom(s, i + 1)

(* str.lower() *)
Lower(s) == LowerFrom(s, 1)

(* word in message: substring test *)
Contains(hay, needle) ==
    \E i \in 0..(Len(hay) - Len(needle)) :
        SubSeq(hay, i + 1, i + Len(needle)) = needle

(* the characters str.isspace() accepts, which str.split() separates on *)
WhitespaceChars ==
    <<
      <<9, 13>>, <<28, 32>>, <<133, 133>>, <<160, 160>>, <<5760, 5760>>,
      <<8192, 8202>>, <<8232, 8233>>, <<8239, 8239>>, <<8287, 8287>>,
      <<12288, 12288>> >>

IsSpace(ch) == InRanges(ch, WhitespaceChars)

RECURSIVE SplitFrom(_, _, _)
(* str.split(): the maximal runs of non-whitespace characters, in order *)
SplitFrom(s, i, word) ==
    IF i > Len(s)
    THEN IF word = <<>> THEN <<>> ELSE <<word>>
    ELSE IF IsSpace(s[i])
         THEN (IF word = <<>> THEN <<>> ELSE <<word>>) \o SplitFrom(s, i + 1, <<>>)
         ELSE SplitFrom(s, i + 1, Append(word, s[i]))

Split(s) == SplitFrom(s, 1, <<>>)

(* x in list *)
InList(x, list) == \E i \in 1..Len(list) : list[i] = x

(* the characters above U+007F for which str.isprintable() is false *)
NonPrintableChars ==
    <<
      <<128, 160>>, <<173, 173>>, <<888, 889>>, <<896, 899>>, <<907, 907>>,
      <<909, 909>>, <<930, 930>>, <<1328, 1328>>, <<1367, 1368>>,
      <<1419, 1420>>, <<1424, 1424>>, <<1480, 1487>>, <<1515, 1518>>,
      <<1525, 1541>>, <<1564, 1564>>, <<1757, 1757>>, <<1806, 1807>>,
      <<1867, 1868>>, <<1970, 1983>>, <<2043, 2044>>, <<2094, 2095>>,
      <<2111, 2111>>, <<2140, 2141>>, <<2143, 2143>>, <<2155, 2159>>,
      <<2191, 2199>>, <<2274, 2274>>, <<2436, 2436>>, <<2445, 2446>>,
      <<2449, 2450>>, <<2473, 2473>>, <<2481, 2481>>, <<2483, 2485>>,
      <<2490, 2491>>, <<2501, 2502>>, <<2505, 2506>>, <<2511, 2518>>,
      <<2520, 2523>>, <<2526, 2526>>, <<2532, 2533>>, <<2559, 2560>>,
      <<2564, 2564>>, <<2571, 2574>>, <<2577, 2578>>, <<2601, 2601>>,
      <<2609, 2609>>, <<2612, 2612>>, <<2615, 2615>>, <<2618, 2619>>,
      <<2621, 2621>>, <<2627, 2630>>, <<2633, 2634>>, <<2638, 2640>>,
      <<2642, 2648>>, <<2653, 2653>>, <<2655, 2661>>, <<2679, 2688>>,
      <<2692, 2692>>, <<2702, 2702>>, <<2706, 2706>>, <<2729, 2729>>,
      <<2737, 2737>>, <<2740, 2740>>, <<2746, 2747>>, <<2758, 2758>>,
      <<2762, 2762>>, <<2766, 2767>>, <<2769, 2783>>, <<2788, 2789>>,
      <<2802, 2808>>, <<2816, 2816>>, <<2820, 2820>>, <<2829, 2830>>,
      <<2833, 2834>>, <<2857, 2857>>, <<2865, 2865>>, <<2868, 2868>>,
      <<2874, 2875>>, <<2885, 2886>>, <<2889, 2890>>, <<2894, 2900>>,
      <<2904, 2907>>, <<2910, 2910>>, <<2916, 2917>>, <<2936, 2945>>,
      <<2948, 2948>>, <<2955, 2957>>, <<2961, 2961>>, <<2966, 2968>>,
      <<2971, 2971>>, <<2973, 2973>>, <<2976, 2978>>, <<2981, 2983>>,
      <<2987, 2989>>, <<3002, 3005>>, <<3011, 3013>>, <<3017, 3017>>,
      <<3022, 3023>>, <<3025, 3030>>, <<3032, 3045>>, <<3067, 3071>>,
      <<3085, 3085>>, <<3089, 3089>>, <<3113, 3113>>, <<3130, 3131>>,
      <<3141, 3141>>, <<3145, 3145>>, <<3150, 3156>>, <<3159, 3159>>,
      <<3163, 3164>>, <<3166, 3167>>, <<3172, 3173>>, <<3184, 3190>>,
      <<3213, 3213>>, <<3217, 3217>>, <<3241, 3241>>, <<3252, 3252>>,
      <<3258, 3259>>, <<3269, 3269>>, <<3273, 3273>>, <<3278, 3284>>,
      <<3287, 3292>>, <<3295, 3295>>, <<3300, 3301>>, <<3312, 3312>>,
      <<3315, 3327>>, <<3341, 3341>>, <<3345, 3345>>, <<3397, 3397>>,
      <<3401, 3401>>, <<3408, 3411>>, <<3428, 3429>>, <<3456, 3456>>,
      <<3460, 3460>>, <<3479, 3481>>, <<3506, 3506>>, <<3516, 3516>>,
      <<3518, 3519>>, <<3527, 3529>>, <<3531, 3534>>, <<3541, 3541>>,
      <<3543, 3543>>, <<3552, 3557>>, <<3568, 3569>>, <<3573, 3584>>,
      <<3643, 3646>>, <<3676, 3712>>, <<3715, 3715>>, <<3717, 3717>>,
      <<3723, 3723>>, <<3748, 3748>>, <<3750, 3750>>, <<3774, 3775>>,
      <<3781, 3781>>, <<3783, 3783>>, <<3790, 3791>>, <<3802, 3803>>,
      <<3808, 3839>>, <<3912, 3912>>, <<3949, 3952>>, <<3992, 3992>>,
      <<4029, 4029>>, <<4045, 4045>>, <<4059, 4095>>, <<4294, 4294>>,
      <<4296, 4300>>, <<4302, 4303>>, <<4681, 4681>>, <<4686, 4687>>,
      <<4695, 4695>>, <<4697, 4697>>, <<4702, 4703>>, <<4745, 4745>>,
      <<4750, 4751>>, <<4785, 4785>>, <<4790, 4791>>, <<4799, 4799>>,
      <<4801, 4801>>, <<4806, 4807>>, <<4823, 4823>>, <<4881, 4881>>,
      <<4886, 4887>>, <<4955, 4956>>, <<4989, 4991>>, <<5018, 5023>>,
      <<5110, 5111>>, <<5118, 5119>>, <<5760, 5760>>, <<5789, 5791>>,
      <<5881, 5887>>, <<5910, 5918>>, <<5943, 5951>>, <<5972, 5983>>,
      <<5997, 5997>>, <<6001, 6001>>, <<6004, 6015>>, <<6110, 6111>>,
      <<6122, 6127>>, <<6138, 6143>>, <<6158, 6158>>, <<6170, 6175>>,
      <<6265, 6271>>, <<6315, 6319>>, <<6390, 6399>>, <<6431, 6431>>,
      <<6444, 6447>>, <<6460, 6463>>, <<6465, 6467>>, <<6510, 6511>>,
      <<6517, 6527>>, <<6572, 6575>>, <<6602, 6607>>, <<6619, 6621>>,
      <<6684, 6685>>, <<6751, 6751>>, <<6781, 6782>>, <<6794, 6799>>,
      <<6810, 6815>>, <<6830, 6831>>, <<6863, 6911>>, <<6989, 6991>>,
      <<7039, 7039>>, <<7156, 7163>>, <<7224, 7226>>, <<7242, 7244>>,
      <<7305, 7311>>, <<7355, 7356>>, <<7368, 7375>>, <<7419, 7423>>,
      <<7958, 7959>>, <<7966, 7967>>, <<8006, 8007>>, <<8014, 8015>>,
      <<8024, 8024>>, <<8026, 8026>>, <<8028, 8028>>, <<8030, 8030>>,
      <<8062, 8063>>, <<8117, 8117>>, <<8133, 8133>>, <<8148, 8149>>,
      <<8156, 8156>>, <<8176, 8177>>, <<8181, 8181>>, <<8191, 8207>>,
      <<8232, 8239>>, <<8287, 8303>>, <<8306, 8307>>, <<8335, 8335>>,
      <<8349, 8351>>, <<8385, 8399>>, <<8433, 8447>>, <<8588, 8591>>,
      <<9255, 9279>>, <<9291, 9311>>, <<11124, 11125>>, <<11158, 11158>>,
      <<11508, 11512>>, <<11558, 11558>>, <<11560, 11564>>, <<11566, 11567>>,
      <<11624, 11630>>, <<11633, 11646>>, <<11671, 11679>>, <<11687, 11687>>,
      <<11695, 11695>>, <<11703, 11703>>, <<11711, 11711>>, <<11719, 11719>>,
      <<11727, 11727>>, <<11735, 11735>>, <<11743, 11743>>, <<11870, 11903>>,
      <<11930, 11930>>, <<12020, 12031>>, <<12246, 12271>>, <<12284, 12288>>,
      <<12352, 12352>>, <<12439, 12440>>, <<12544, 12548>>, <<12592, 12592>>,
      <<12687, 12687>>, <<12772, 12783>>, <<12831, 12831>>, <<42125, 42127>>,
      <<42183, 42191>>, <<42540, 42559>>, <<42744, 42751>>, <<42955, 42959>>,
      <<42962, 42962>>, <<42964, 42964>>, <<42970, 42993>>, <<43053, 43055>>,
      <<43066, 43071>>, <<43128, 43135>>, <<43206, 43213>>, <<43226, 43231>>,
      <<43348, 43358>>, <<43389, 43391>>, <<43470, 43470>>, <<43482, 43485>>,
      <<43519, 43519>>, <<43575, 43583>>, <<43598, 43599>>, <<43610, 43611>>,
      <<43715, 43738>>, <<43767, 43776>>, <<43783, 43784>>, <<43791, 43792>>,
      <<43799, 43807>>, <<43815, 43815>>, <<43823, 43823>>, <<43884, 43887>>,
      <<44014, 44015>>, <<44026, 44031>>, <<55204, 55215>>, <<55239, 55242>>,
      <<55292, 63743>>, <<64110, 64111>>, <<64218, 64255>>, <<64263, 64274>>,
      <<64280, 64284>>, <<64311, 64311>>, <<64317, 64317>>, <<64319, 64319>>,
      <<64322, 64322>>, <<64325, 64325>>, <<64451, 64466>>, <<64912, 64913>>,
      <<64968, 64974>>, <<64976, 65007>>, <<65050, 65055>>, <<65107, 65107>>,
      <<65127, 65127>>, <<65132, 65135>>, <<65141, 65141>>, <<65277, 65280>>,
      <<65471, 65473>>, <<65480, 65481>>, <<65488, 65489>>, <<65496, 65497>>,
      <<65501, 65503>>, <<65511, 65511>>, <<65519, 65531>>, <<65534, 65535>>,
      <<65548, 65548>>, <<65575, 65575>>, <<65595, 65595>>, <<65598, 65598>>,
      <<65614, 65615>>, <<65630, 65663>>, <<65787, 65791>>, <<65795, 65798>>,
      <<65844, 65846>>, <<65935, 65935>>, <<65949, 65951>>, <<65953, 65999>>,
      <<66046, 66175>>, <<66205, 66207>>, <<66257, 66271>>, <<66300, 66303>>,
      <<66340, 66348>>, <<66379, 66383>>, <<66427, 66431>>, <<66462, 66462>>,
      <<66500, 66503>>, <<66518, 66559>>, <<66718, 66719>>, <<66730, 66735>>,
      <<66772, 66775>>, <<66812, 66815>>, <<66856, 66863>>, <<66916, 66926>>,
      <<66939, 66939>>, <<66955, 66955>>, <<66963, 66963>>, <<66966, 66966>>,
      <<66978, 66978>>, <<66994, 66994>>, <<67002, 67002>>, <<67005, 67071>>,
      <<67383, 67391>>, <<67414, 67423>>, <<67432, 67455>>, <<67462, 67462>>,
      <<67505, 67505>>, <<67515, 67583>>, <<67590, 67591>>, <<67593, 67593>>,
      <<67638, 67638>>, <<67641, 67643>>, <<67645, 67646>>, <<67670, 67670>>,
      <<67743, 67750>>, <<67760, 67807>>, <<67827, 67827>>, <<67830, 67834>>,
      <<67868, 67870>>, <<67898, 67902>>, <<67904, 67967>>, <<68024, 68027>>,
      <<68048, 68049>>, <<68100, 68100>>, <<68103, 68107>>, <<68116, 68116>>,
      <<68120, 68120>>, <<68150, 68151>>, <<68155, 68158>>, <<68169, 68175>>,
      <<68185, 68191>>, <<68256, 68287>>, <<68327, 68330>>, <<68343, 68351>>,
      <<68406, 68408>>, <<68438, 68439>>, <<68467, 68471>>, <<68498, 68504>>,
      <<68509, 68520>>, <<68528, 68607>>, <<68681, 68735>>, <<68787, 68799>>,
      <<68851, 68857>>, <<68904, 68911>>, <<68922, 69215>>, <<69247, 69247>>,
      <<69290, 69290>>, <<69294, 69295>>, <<69298, 69375>>, <<69416, 69423>>,
      <<69466, 69487>>, <<69514, 69551>>, <<69580, 69599>>, <<69623, 69631>>,
      <<69710, 69713>>, <<69750, 69758>>, <<69821, 69821>>, <<69827, 69839>>,
      <<69865, 69871>>, <<69882, 69887>>, <<69941, 69941>>, <<69960, 69967>>,
      <<70007, 70015>>, <<70112, 70112>>, <<70133, 70143>>, <<70162, 70162>>,
      <<70207, 70271>>, <<70279, 70279>>, <<70281, 70281>>, <<70286, 70286>>,
      <<70302, 70302>>, <<70314, 70319>>, <<70379, 70383>>, <<70394, 70399>>,
      <<70404, 70404>>, <<70413, 70414>>, <<70417, 70418>>, <<70441, 70441>>,
      <<70449, 70449>>, <<70452, 70452>>, <<70458, 70458>>, <<70469, 70470>>,
      <<70473, 70474>>, <<70478, 70479>>, <<70481, 70486>>, <<70488, 70492>>,
      <<70500, 70501>>, <<70509, 70511>>, <<70517, 70655>>, <<70748, 70748>>,
      <<70754, 70783>>, <<70856, 70863>>, <<70874, 71039>>, <<71094, 71095>>,
      <<71134, 71167>>, <<71237, 71247>>, <<71258, 71263>>, <<71277, 71295>>,
      <<71354, 71359>>, <<71370, 71423>>, <<71451, 71452>>, <<71468, 71471>>,
      <<71495, 71679>>, <<71740, 71839>>, <<71923, 71934>>, <<71943, 71944>>,
      <<71946, 71947>>, <<71956, 71956>>, <<71959, 71959>>, <<71990, 71990>>,
      <<71993, 71994>>, <<72007, 72015>>, <<72026, 72095>>, <<72104, 72105>>,
      <<72152, 72153>>, <<72165, 72191>>, <<72264, 72271>>, <<72355, 72367>>,
      <<72441, 72703>>, <<72713, 72713>>, <<72759, 72759>>, <<72774, 72783>>,
      <<72813, 72815>>, <<72848, 72849>>, <<72872, 72872>>, <<72887, 72959>>,
      <<72967, 72967>>, <<72970, 72970>>, <<73015, 73017>>, <<73019, 73019>>,
      <<73022, 73022>>, <<73032, 73039>>, <<73050, 73055>>, <<73062, 73062>>,
      <<73065, 73065>>, <<73103, 73103>>, <<73106, 73106>>, <<73113, 73119>>,
      <<73130, 73439>>, <<73465, 73647>>, <<73649, 73663>>, <<73714, 73726>>,
      <<74650, 74751>>, <<74863, 74863>>, <<74869, 74879>>, <<75076, 77711>>,
      <<77811, 77823>>, <<78895, 82943>>, <<83527, 92159>>, <<92729, 92735>>,
      <<92767, 92767>>, <<92778, 92781>>, <<92863, 92863>>, <<92874, 92879>>,
      <<92910, 92911>>, <<92918, 92927>>, <<92998, 93007>>, <<93018, 93018>>,
      <<93026, 93026>>, <<93048, 93052>>, <<93072, 93759>>, <<93851, 93951>>,
      <<94027, 94030>>, <<94088, 94094>>, <<94112, 94175>>, <<94181, 94191>>,
      <<94194, 94207>>, <<100344, 100351>>, <<101590, 101631>>,
      <<101641, 110575>>, <<110580, 110580>>, <<110588, 110588>>,
      <<110591, 110591>>, <<110883, 110927>>, <<110931, 110947>>,
      <<110952, 110959>>, <<111356, 113663>>, <<113771, 113775>>,
      <<113789, 113791>>, <<113801, 113807>>, <<113818, 113819>>,
      <<113824, 118527>>, <<118574, 118575>>, <<118599, 118607>>,
      <<118724, 118783>>, <<119030, 119039>>, <<119079, 119080>>,
      <<119155, 119162>>, <<119275, 119295>>, <<119366, 119519>>,
      <<119540, 119551>>, <<119639, 119647>>, <<119673, 119807>>,
      <<119893, 119893>>, <<119965, 119965>>, <<119968, 119969>>,
      <<119971, 119972>>, <<119975, 119976>>, <<119981, 119981>>,
      <<119994, 119994>>, <<119996, 119996>>, <<120004, 120004>>,
      <<120070, 120070>>, <<120075, 120076>>, <<120085, 120085>>,
      <<120093, 120093>>, <<120122, 120122>>, <<120127, 120127>>,
      <<120133, 120133>>, <<120135, 120137>>, <<120145, 120145>>,
      <<120486, 120487>>, <<120780, 120781>>, <<121484, 121498>>,
      <<121504, 121504>>, <<121520, 122623>>, <<122655, 122879>>,
      <<122887, 122887>>, <<122905, 122906>>, <<122914, 122914>>,
      <<122917, 122917>>, <<122923, 123135>>, <<123181, 123183>>,
      <<123198, 123199>>, <<123210, 123213>>, <<123216, 123535>>,
      <<123567, 123583>>, <<123642, 123646>>, <<123648, 124895>>,
      <<124903, 124903>>, <<124908, 124908>>, <<124911, 124911>>,
      <<124927, 124927>>, <<125125, 125126>>, <<125143, 125183>>,
      <<125260, 125263>>, <<125274, 125277>>, <<125280, 126064>>,
      <<126133, 126208>>, <<126270, 126463>>, <<126468, 126468>>,
      <<126496, 126496>>, <<126499, 126499>>, <<126501, 126502>>,
      <<126504, 126504>>, <<126515, 126515>>, <<126520, 126520>>,
      <<126522, 126522>>, <<126524, 126529>>, <<126531, 126534>>,
      <<126536, 126536>>, <<126538, 126538>>, <<126540, 126540>>,
      <<126544, 126544>>, <<126547, 126547>>, <<126549, 126550>>,
      <<126552, 126552>>, <<126554, 126554>>, <<126556, 126556>>,
      <<126558, 126558>>, <<126560, 126560>>, <<126563, 126563>>,
      <<126565, 126566>>, <<126571, 126571>>, <<126579, 126579>>,
      <<126584, 126584>>, <<126589, 126589>>, <<126591, 126591>>,
      <<126602, 126602>>, <<126620, 126624>>, <<126628, 126628>>,
      <<126634, 126634>>, <<126652, 126703>>, <<126706, 126975>>,
      <<127020, 127023>>, <<127124, 127135>>, <<127151, 127152>>,
      <<127168, 127168>>, <<127184, 127184>>, <<127222, 127231>>,
      <<127406, 127461>>, <<127491, 127503>>, <<127548, 127551>>,
      <<127561, 127567>>, <<127570, 127583>>, <<127590, 127743>>,
      <<128728, 128732>>, <<128749, 128751>>, <<128765, 128767>>,
      <<128884, 128895>>, <<128985, 128991>>, <<129004, 129007>>,
      <<129009, 129023>>, <<129036, 129039>>, <<129096, 129103>>,
      <<129114, 129119>>, <<129160, 129167>>, <<129198, 129199>>,
      <<129202, 129279>>, <<129620, 129631>>, <<129646, 129647>>,
      <<129653, 129655>>, <<129661, 129663>>, <<129671, 129679>>,
      <<129709, 129711>>, <<129723, 129727>>, <<129734, 129743>>,
      <<129754, 129759>>, <<129768, 129775>>, <<129783, 129791>>,
      <<129939, 129939>>, <<129995, 130031>>, <<130042, 131071>>,
      <<173792, 173823>>, <<177977, 177983>>, <<178206, 178207>>,
      <<183970, 183983>>, <<191457, 194559>>, <<195102, 196607>>,
      <<201547, 917759>>, <<918000, 1114111>> >>

IsPrintable(ch) ==
    IF ch < 128 THEN 32 <= ch /\ ch < 127 ELSE ~InRanges(ch, NonPrintableChars)

HexDigits == <<48, 49, 50, 51, 52, 53, 54, 55, 56, 57, 97, 98, 99, 100, 101, 102>>    \* '0123456789abcdef'

RECURSIVE Hex(_, _)
(* n in hexadecimal on width digits *)
Hex(n, width) ==
    IF width = 0 THEN <<>>
    ELSE Hex(n \div 16, width - 1) \o <<HexDigits[(n % 16) + 1]>>

(* one character of the text inside repr()'s quotes: backslash and the     *)
(* quote get a backslash, tab, newline and return their letter, any other  *)
(* non-printable character its \x, \u or \U escape                          *)
EscapeChar(ch, quote) ==
    IF ch = 92 \/ ch = quote THEN <<92, ch>>
    ELSE IF ch = 9 THEN <<92, 116>>
    ELSE IF ch = 10 THEN <<92, 110>>
    ELSE IF ch = 13 THEN <<92, 114>>
    ELSE IF IsPrintable(ch) THEN <<ch>>
    ELSE IF ch < 256 THEN <<92, 120>> \o Hex(ch, 2)
    ELSE IF ch < 65536 THEN <<92, 117>> \o Hex(ch, 4)
    ELSE <<92, 85>> \o Hex(ch, 8)

RECURSIVE EscapeAll(_, _)
EscapeAll(s, quote) ==
    IF s = <<>> THEN <<>>
    ELSE EscapeChar(Head(s), quote) \o EscapeAll(Tail(s), quote)

(* repr() of a str: double quotes when the text holds ' and no " *)
ReprStr(s) ==
    LET quote == IF InList(39, s) /\ ~InList(34, s) THEN 34 ELSE 39 IN
    <<quote>> \o EscapeAll(s, quote) \o <<quote>>

---------------------------------------------------------------------------
(* extract_operation_type *)

(* 'delete', 'remove', 'deactivate' *)
DeleteWords == << <<100, 101, 108, 101, 116, 101>>, <<114, 101, 109, 111, 118, 101>>, <<100, 101, 97, 99, 116, 105, 118, 97, 116, 101>> >>
(* 'create', 'add', 'new' *)
CreateWords == << <<99, 114, 101, 97, 116, 101>>, <<97, 100, 100>>, <<110, 101, 119>> >>
(* 'update', 'modify', 'change', 'edit' *)
UpdateWords == << <<117, 112, 100, 97, 116, 101>>, <<109, 111, 100, 105, 102, 121>>, <<99, 104, 97, 110, 103, 101>>, <<101, 100, 105, 116>> >>
(* 'read', 'get', 'fetch', 'show', 'list' *)
ReadWords == << <<114, 101, 97, 100>>, <<103, 101, 116>>, <<102, 101, 116, 99, 104>>, <<115, 104, 111, 119>>, <<108, 105, 115, 116>> >>

AnyWordIn(words, message) ==
    \E i \in 1..Len(words) : Contains(message, words[i])

extract_operation_type(user_message) ==
    LET message_lower == Lower(user_message) IN
    IF AnyWordIn(DeleteWords, message_lower) THEN "delete"
    ELSE IF AnyWordIn(CreateWords, message_lower) THEN "create"
    ELSE IF AnyWordIn(UpdateWords, message_lower) THEN "update"
    ELSE IF AnyWordIn(ReadWords, message_lower) THEN "read"
    ELSE "unknown"

---------------------------------------------------------------------------
(* Python values *)

None == [kind |-> "None"]
PyStr(t) == [kind |-> "str", text |-> t]
PyDict(kvs) == [kind |-> "dict", items |-> kvs]    \* <<key, value>> pairs in order
PyList(xs) == [kind |-> "list", items |-> xs]
PyTuple(xs) == [kind |-> "tuple", items |-> xs]

(* uuid4() is drawn as a number; str() and .hex are its two texts *)
uuid_str(u) == [uuid |-> u, form |-> "str"]
uuid_hex(u) == [uuid |-> u, form |-> "hex"]

(* a2a.types: Part is a wrapper whose only attribute is root *)
TextPart(t) == [kind |-> "text", text |-> t]
DataPart == [kind |-> "data"]
Part(p) == [root |-> p]
Message(role, ps, id) ==
    [kind |-> "Message", role |-> role, parts |-> ps, message_id |-> id]
Task(id) == [kind |-> "Task", id |-> id, context_id |-> <<99, 49>>, state |-> <<99, 111, 109, 112, 108, 101, 116, 101, 100>>]
TaskStatusUpdateEvent == [kind |-> "TaskStatusUpdateEvent"]

(* the separators and brackets of the displays *)
CommaSpace == <<44, 32>>    \* ', '
ColonSpace == <<58, 32>>    \* ': '
NoneText == <<78, 111, 110, 101>>    \* 'None'

(* the fields of a Task as pydantic prints them, name=repr(value), joined  *)
(* by sep                                                                  *)
TaskFields(v, sep) ==
    <<97, 114, 116, 105, 102, 97, 99, 116, 115, 61, 78, 111, 110, 101>> \o sep
    \o <<99, 111, 110, 116, 101, 120, 116, 95, 105, 100, 61>> \o ReprStr(v.context_id) \o sep
    \o <<104, 105, 115, 116, 111, 114, 121, 61, 78, 111, 110, 101>> \o sep
    \o <<105, 100, 61>> \o ReprStr(v.id) \o sep
    \o <<107, 105, 110, 100, 61, 39, 116, 97, 115, 107, 39>> \o sep
    \o <<109, 101, 116, 97, 100, 97, 116, 97, 61, 78, 111, 110, 101>> \o sep
    \o <<115, 116, 97, 116, 117, 115, 61, 84, 97, 115, 107, 83, 116, 97, 116, 117, 115, 40, 109, 101, 115, 115, 97, 103, 101, 61, 78, 111, 110, 101, 44, 32, 115, 116, 97, 116, 101, 61, 60, 84, 97, 115, 107, 83, 116, 97, 116, 101, 46>> \o v.state
    \o ColonSpace \o ReprStr(v.state) \o <<62, 44, 32, 116, 105, 109, 101, 115, 116, 97, 109, 112, 61, 78, 111, 110, 101, 41>>

RECURSIVE Str(_)
RECURSIVE Repr(_)
RECURSIVE ReprItems(_)
RECURSIVE ReprPairs(_)

(* the elements of a list or tuple display, separated by ", " *)
ReprItems(xs) ==
    IF xs = <<>> THEN <<>>
    ELSE IF Len(xs) = 1 THEN Repr(xs[1])
    ELSE Repr(xs[1]) \o CommaSpace \o ReprItems(Tail(xs))

(* the key: value pairs of a dict display, separated by ", " *)
ReprPairs(kvs) ==
    IF kvs = <<>> THEN <<>>
    ELSE Repr(kvs[1][1]) \o ColonSpace \o Repr(kvs[1][2])
         \o (IF Len(kvs) = 1 THEN <<>> ELSE CommaSpace \o ReprPairs(Tail(kvs)))

(* repr(v): a str is quoted, a Task is Task(field, ...), a container and   *)
(* None print as str() prints them                                         *)
Repr(v) ==
    IF v.kind = "str" THEN ReprStr(v.text)
    ELSE IF v.kind = "Task" THEN <<84, 97, 115, 107, 40>> \o TaskFields(v, CommaSpace) \o <<41>>
    ELSE Str(v)

(* str(v): { } [ ] ( ) around the displays; a Task prints its fields       *)
(* separated by one space                                                  *)
Str(v) ==
    CASE v.kind = "None" -> NoneText
      [] v.kind = "str" -> v.text
      [] v.kind = "dict" -> <<123>> \o ReprPairs(v.items) \o <<125>>
      [] v.kind = "list" -> <<91>> \o ReprItems(v.items) \o <<93>>
      [] v.kind = "tuple" ->
            IF Len(v.items) = 1
            THEN <<40>> \o Repr(v.items[1]) \o <<44, 41>>
            ELSE <<40>> \o ReprItems(v.items) \o <<41>>
      [] v.kind = "Task" -> TaskFields(v, <<32>>)

(* hasattr(o, name) *)
hasattr(o, name) == name \in DOMAIN o

---------------------------------------------------------------------------
(* The response loop of send_sync_message *)

NoEvent == [kind |-> "NoEvent"]

(* the branch of the if / elif / else that an event takes *)
Classify(event) ==
    IF event.kind = "Message" THEN "FinalMessage"
    ELSE IF event.kind = "tuple" /\ Len(event.items) = 2 THEN "TaskUpdate"
    ELSE "Opaque"

(* the value the branch returns *)
ReturnValue(event) ==
    CASE Classify(event) = "FinalMessage" -> event
      [] Classify(event) = "TaskUpdate" -> event.items[1]
      [] Classify(event) = "Opaque" -> event

(* objects that have model_dump_json *)
IsModel(v) == v.kind \in {"Message", "Task", "TaskStatusUpdateEvent"}

(* bool(v): None, the empty string and the empty containers are false *)
Truthy(v) ==
    CASE v.kind = "None" -> FALSE
      [] v.kind = "str" -> v.text # <<>>
      [] v.kind \in {"list", "tuple", "dict"} -> v.items # <<>>
      [] IsModel(v) -> TRUE

(* the logging of the TaskUpdate branch calls model_dump_json on the task  *)
(* and on a truthy update                                                  *)
LogFails(event) ==
    /\ Classify(event) = "TaskUpdate"
    /\ \/ ~IsModel(event.items[1])
       \/ Truthy(event.items[2]) /\ ~IsModel(event.items[2])

(* async for event in client.send_message(msg): every branch returns, and  *)
(* an exhausted iterator falls off the end of the function (None).         *)
ConsumeEvents(events) ==
    IF events = <<>>
    THEN [result |-> None, consumed |-> 0, event |-> NoEvent, class |-> "none",
          error |-> "none"]
    ELSE IF LogFails(Head(events))
    THEN [result |-> None, consumed |-> 1, event |-> Head(events),
          class |-> Classify(Head(events)), error |-> "AttributeError"]
    ELSE [result |-> ReturnValue(Head(events)), consumed |-> 1,
          event |-> Head(events), class |-> Classify(Head(events)),
          error |-> "none"]

(* next((p.content.text for p in parts if hasattr ...), "") *)
RECURSIVE FirstContentText(_)
FirstContentText(parts) ==
    IF parts = <<>> THEN <<>>
    ELSE IF hasattr(Head(parts), "content") /\ hasattr(Head(parts).content, "text")
         THEN Head(parts).content.text
         ELSE FirstContentText(Tail(parts))

(* the tail of invoke: the dict built from the result of send_sync_message *)
ResponseOf(result) ==
    IF result.kind = "Message"
    THEN [response |-> FirstContentText(result.parts)]
    ELSE [response |-> Str(result)]

---------------------------------------------------------------------------
(* Access tokens and their scope claim *)

S_empty == <<>>
S_delete == <<100, 101, 108, 101, 116, 101>>    \* 'delete'
S_read_delete == <<114, 101, 97, 100, 32, 100, 101, 108, 101, 116, 101>>    \* 'read delete'
S_read_cr_delete == <<114, 101, 97, 100, 13, 100, 101, 108, 101, 116, 101>>    \* 'read\rdelete'
S_cr == <<13>>    \* '\r'
S_user_delete == <<117, 115, 101, 114, 58, 100, 101, 108, 101, 116, 101>>    \* 'user:delete'
S_actionagent == <<97, 99, 116, 105, 111, 110, 97, 103, 101, 110, 116>>    \* 'actionagent'

(* a token string: the number of dot-separated segments and the decoded    *)
(* JSON payload of the second one                                          *)
TokenStr(n, body) == [kind |-> "str", segments |-> n, body |-> body]

(* not access_token *)
Falsy(v) == v.kind = "None" \/ (v.kind = "str" /\ v.segments = 0)

(* jwt.decode(access_token, options={"verify_signature": False}): the      *)
(* token must have three segments and its payload must be a JSON object    *)
jwt_decode(access_token) ==
    IF access_token.segments = 3 /\ access_token.body.kind = "dict"
    THEN [ok |-> TRUE, decoded |-> access_token.body]
    ELSE [ok |-> FALSE, decoded |-> None]

(* dict.get(key, default) *)
DictGet(d, key, default) ==
    IF \E i \in 1..Len(d.items) : d.items[i][1] = key
    THEN d.items[CHOOSE i \in 1..Len(d.items) : d.items[i][1] = key][2]
    ELSE default

(* decoded.get('scope', '') *)
GetScope(decoded) == DictGet(decoded, PyStr(<<115, 99, 111, 112, 101>>), PyStr(S_empty))

(* the scope claim as a list: split a string, keep a list, drop the rest *)
ScopeList(scopes) ==
    IF scopes.kind = "str"
    THEN [i \in 1..Len(Split(scopes.text)) |-> PyStr(Split(scopes.text)[i])]
    ELSE IF scopes.kind = "list" THEN scopes.items ELSE <<>>

(* the gate in front of the delegation: lines 184-185 and 215 *)
MayDelegate(operation, scope_list) ==
    operation = "delete" => InList(PyStr(S_delete), scope_list)

---------------------------------------------------------------------------
(* The frame of one invoke request *)

NoResult == [kind |-> "NoResult"]
NoResponse == [kind |-> "NoResponse"]
NoRequest == [kind |-> "NoRequest"]
NoMessage == [kind |-> "NoMessage"]
NoHeaders == [kind |-> "NoHeaders"]
NoSession == [kind |-> "NoSession"]

IdleCall ==
    [pc |-> "idle",            \* idle, coordinator, discovery, dispatch, closing,
                               \* returned, raised, cancelled
     inflight |-> "none",      \* the exception leaving the async with block
     coordArg |-> "none",      \* what coordinator_agent was called with
     coordCalls |-> 0,
     reply |-> None,           \* response.message of the coordinator
     message |-> <<>>,         \* the argument of send_sync_message
     session_id |-> NoSession,
     headers |-> NoHeaders,    \* the default headers of the httpx client
     client |-> "none",        \* none, open, closed (is_closed)
     transport |-> "none",     \* none, open, closed, interrupted
     card |-> "none",
     resolveError |-> "none",  \* the exception of resolver.get_agent_card
     resolveCalls |-> 0,       \* requests issued by resolver.get_agent_card
     discHdr |-> NoHeaders,    \* headers carried by the discovery request
     dispatchCalls |-> 0,      \* requests issued by client.send_message
     dispHdr |-> NoHeaders,    \* headers carried by the dispatch request
     dispatched |-> NoMessage, \* the message sent to the executor
     waited |-> 0,             \* seconds the pending network operation has waited
     elapsed |-> 0,            \* seconds the call has run since the client opened
     error |-> "none",
     offered |-> 0,            \* events the transport had for this call
     consumed |-> 0,           \* events the loop took from the transport
     event |-> NoEvent,
     class |-> "none",
     pending |-> NoResult,     \* the value of a return that is leaving async with
     result |-> NoResult,      \* the return value of send_sync_message
     response |-> NoResponse]  \* the return value of invoke

(* a variant that draws the identifier once, when the module is loaded *)
uuid4_once(used) == {1}

(* uuid4(): an identifier that was never handed out before.  Identifiers   *)
(* are only compared for equality, so the next unused number stands for    *)
(* any fresh one; a call draws at most two (lines 33 and 25).              *)
uuid4(used) == {1 + Cardinality(used)}

(* lines 37-38 *)
Headers(session_id) ==
    [kind |-> "headers", Authorization |-> "Bearer", SessionId |-> session_id]

(* create_message(text=...): role defaults to Role.user *)
create_message(text, u) ==
    Message("user", <<Part(TextPart(text))>>, uuid_hex(u))

(* a variant without the context manager: closed only before the return *)
ClientAfterExit_return_only(how) == IF how = "return" THEN "closed" ELSE "open"

(* async with httpx.AsyncClient(...): however the block is left ("return", *)
(* "exception", "cancel") __aexit__ is entered; it marks the client closed *)
(* and then awaits the close of the transport                              *)
ClientAfterExit(how) == "closed"

(* the call ends with an exception: nothing is returned, and the call no   *)
(* longer runs or waits                                                    *)
Raise(f, err) ==
    [f EXCEPT !.pc = IF err = "CancelledError" THEN "cancelled" ELSE "raised",
              !.error = err,
              !.inflight = "none",
              !.pending = NoResult,
              !.waited = 0,
              !.elapsed = 0]

(* an exception is raised inside the async with block: the block is left   *)
(* through __aexit__, which is awaited with the exception in flight        *)
Fail(f, err) ==
    [f EXCEPT !.pc = "closing",
              !.inflight = err,
              !.pending = NoResult,
              !.waited = 0,
              !.client = ClientAfterExit(IF err = "CancelledError"
                                         THEN "cancel" ELSE "exception")]

(* coordinator_agent(arg) is called and blocks until the model answers *)
Coordinate(f, arg) ==
    [f EXCEPT !.pc = "coordinator", !.coordArg = arg, !.coordCalls = @ + 1]

(* invoke, lines 136-190/213/216: up to the call of the coordinator *)
invoke_entry(p) ==
    LET user_message == p.prompt
        access_token == p.accessToken
    IN
    IF Falsy(access_token)
    THEN Coordinate(IdleCall, "auth_url_instruction")
    ELSE LET d == jwt_decode(access_token) IN
         IF ~d.ok
         THEN Raise(IdleCall, "DecodeError")
         ELSE LET scope_list == ScopeList(GetScope(d.decoded))
                  operation == extract_operation_type(user_message)
              IN
              IF MayDelegate(operation, scope_list)
              THEN Coordinate(IdleCall, "user_message")
              ELSE Coordinate(IdleCall, "step_up_instruction")

(* what invoke hands to send_sync_message: str(response.message) *)
DelegatedText(reply) == Str(reply)

(* send_sync_message, lines 28-43: session id, headers, client, and the    *)
(* capability discovery request                                            *)
OpenAndResolve(f, message, u) ==
    [f EXCEPT !.pc = "discovery",
              !.message = message,
              !.session_id = uuid_str(u),
              !.headers = Headers(uuid_str(u)),
              !.client = "open",
              !.transport = "open",
              !.resolveCalls = @ + 1,
              !.discHdr = Headers(uuid_str(u)),
              !.waited = 0,
              !.elapsed = 0]

(* invoke after the coordinator answered: the instruction paths return its *)
(* reply (lines 154, 214), the other paths delegate it (lines 201, 219)    *)
invoke_resume(f, reply, u) ==
    IF f.coordArg = "user_message"
    THEN OpenAndResolve([f EXCEPT !.reply = reply], DelegatedText(reply), u)
    ELSE [f EXCEPT !.pc = "returned",
                   !.reply = reply,
                   !.response = [response |-> Str(reply)]]

(* send_sync_message, lines 46-57: the client is built from the card and   *)
(* the message is dispatched through the same httpx client                 *)
Dispatch(f, u) ==
    [f EXCEPT !.pc = "dispatch",
              !.dispatchCalls = @ + 1,
              !.dispHdr = f.headers,
              !.dispatched = create_message(f.message, u),
              !.waited = 0]

(* a variant that falls back to a default card and carries on *)
ResolveFailed_default_card(f, err) == Dispatch([f EXCEPT !.card = "default"], 0)

(* line 43 raises: the exception leaves the async with block *)
ResolveFailed(f, err) == Fail([f EXCEPT !.resolveError = err], err)

(* lines 57-71: the loop takes one event and returns from inside the async *)
(* with block, or the logging of the event raises; either way the block is *)
(* left through __aexit__                                                  *)
Receive(f, events) ==
    LET o == ConsumeEvents(events)
        g == [f EXCEPT !.offered = Len(events),
                       !.consumed = o.consumed,
                       !.event = o.event,
                       !.class = o.class]
    IN
    IF o.error # "none"
    THEN Fail(g, o.error)
    ELSE [g EXCEPT !.pc = "closing",
                   !.pending = o.result,
                   !.waited = 0,
                   !.client = ClientAfterExit("return")]

(* the client is closed, send_sync_message returns, and the tail of invoke *)
(* (lines 202-211, 220-228) builds the dict                                *)
Return(f) ==
    [f EXCEPT !.pc = "returned",
              !.result = f.pending,
              !.pending = NoResult,
              !.waited = 0,
              !.elapsed = 0,
              !.response = ResponseOf(f.pending)]

(* the awaited close of the transport completes: the return or the         *)
(* exception in flight leaves send_sync_message and invoke                 *)
Closed(f) ==
    LET g == [f EXCEPT !.transport = "closed"] IN
    IF f.inflight = "none" THEN Return(g) ELSE Raise(g, f.inflight)

(* the task is cancelled: at a request the CancelledError is raised inside *)
(* the block; in the close it interrupts the close and ends the call       *)
Cancelled(f) ==
    IF f.pc = "closing"
    THEN Raise([f EXCEPT !.transport = "interrupted"], "CancelledError")
    ELSE Fail(f, "CancelledError")

---------------------------------------------------------------------------
(* Inputs: requests of the host, replies of the coordinator, answers of    *)
(* the remote endpoint                                                     *)

P_DeleteBob == <<68, 101, 108, 101, 116, 101, 32, 117, 115, 101, 114, 32, 98, 111, 98>>    \* 'Delete user bob'
P_AddThenRemove == <<97, 100, 100, 32, 98, 111, 98, 32, 116, 104, 101, 110, 32, 114, 101, 109, 111, 118, 101, 32, 97, 108>>    \* 'add bob then remove al'
P_Renew == <<114, 101, 110, 101, 119, 32, 98, 111, 98>>    \* 'renew bob'
P_Edit == <<69, 100, 105, 116, 32, 98, 111, 98>>    \* 'Edit bob'
P_List == <<108, 105, 115, 116, 32, 117, 115, 101, 114, 115>>    \* 'list users'
P_Hello == <<104, 101, 108, 108, 111>>    \* 'hello'
P_RemoveEric == <<82, 69, 77, 79, 86, 69, 32, 201, 82, 73, 67>>    \* 'REMOVE \xc9RIC'

Prompts ==
    {P_DeleteBob, P_AddThenRemove, P_Renew, P_Edit, P_List, P_Hello, P_RemoveEric}

ScopeClaims ==
    { PyStr(S_empty), PyStr(S_delete), PyStr(S_read_delete),
      PyStr(S_read_cr_delete), PyStr(S_cr), PyStr(S_user_delete),
      PyStr(S_actionagent),
      PyList(<<PyStr(S_actionagent), PyStr(S_delete)>>),
      PyList(<<PyStr(S_actionagent)>>),
      [kind |-> "int"] }

Tokens ==
    { None, TokenStr(0, None), TokenStr(1, None), TokenStr(3, None),
      TokenStr(3, PyDict(<< <<PyStr(<<115, 117, 98>>), PyStr(S_actionagent)>> >>)) }
    \cup { TokenStr(3, PyDict(<< <<PyStr(<<115, 99, 111, 112, 101>>), sc>> >>)) : sc \in ScopeClaims }

Payloads == [prompt : Prompts, accessToken : Tokens]

(* response.message of the coordinator: a dict of role and content blocks *)
AssistantMessage(text) ==
    PyDict(<< <<PyStr(<<114, 111, 108, 101>>), PyStr(<<97, 115, 115, 105, 115, 116, 97, 110, 116>>)>>,
              <<PyStr(<<99, 111, 110, 116, 101, 110, 116>>),
                PyList(<<PyDict(<< <<PyStr(<<116, 101, 120, 116>>), PyStr(text)>> >>)>>)>> >>)

CoordinatorMessages ==
    { AssistantMessage(<<68, 101, 108, 101, 116, 101, 32, 117, 115, 101, 114, 32, 98, 111, 98>>), AssistantMessage(<<87, 104, 111, 39, 115, 32, 98, 111, 98, 63>>) }

SeqsUpTo(S, n) == UNION { [1..k -> S] : k \in 0..n }

(* What client.send_message may yield: a Message, a (Task, update) pair    *)
(* whose update may be None, or any other value, two-element tuples of     *)
(* other things included.                                                  *)
(* The code does not control how many events the iterator yields, so an    *)
(* answer is a sequence of 0..MaxEvents events.                            *)

Parts == { Part(TextPart(<<52, 50>>)), Part(DataPart) }

Messages == { Message("agent", ps, uuid_hex(0)) : ps \in SeqsUpTo(Parts, MaxParts) }

TaskPairs ==
    { PyTuple(<<Task(<<116, 49>>), None>>), PyTuple(<<Task(<<116, 49>>), TaskStatusUpdateEvent>>) }

(* two-element tuples that are not a task with its update *)
OtherPairs ==
    { PyTuple(<<PyStr(<<97>>), None>>), PyTuple(<<None, None>>),
      PyTuple(<<Task(<<116, 49>>), PyStr(<<117>>)>>), PyTuple(<<Task(<<116, 49>>), PyStr(<<>>)>>) }

JsonValues ==
    { None, PyStr(<<>>), PyStr(<<111, 107>>),
      PyDict(<<>>), PyDict(<< <<PyStr(<<102, 111, 111>>), PyStr(<<98, 97, 114>>)>> >>),
      PyList(<<PyStr(<<97>>), PyStr(<<98>>)>>),
      PyList(<<PyStr(<<105, 116, 39, 115>>), PyStr(<<97, 10, 98, 1, 233>>)>>) }

Events == Messages \cup TaskPairs \cup OtherPairs \cup JsonValues

(* events that may follow the first one of an answer *)
LaterEvents == { Message("agent", <<Part(TextPart(<<52, 50>>))>>, uuid_hex(0)), PyStr(<<111, 107>>) }

Streams ==
    { <<>> } \cup
    { <<e>> \o rest : e \in Events, rest \in SeqsUpTo(LaterEvents, MaxEvents - 1) }

TransportErrors == { "DiscoveryError", "TransportError" }

---------------------------------------------------------------------------
(* The state machine *)

(* a request of the call is pending at the remote endpoint *)
Waiting(c) == calls[c].pc \in {"discovery", "dispatch"}

(* the call is at an await inside the async with block *)
Suspended(c) == calls[c].pc \in {"discovery", "dispatch", "closing"}

Init ==
    /\ calls = [c \in Calls |-> IdleCall]
    /\ issued = {}
    /\ payload \in { q \in [Calls -> Payloads \cup {NoRequest}] :
                        \A c \in Calls : (q[c] = NoRequest) <=> (c # 1) }
    /\ replies = CoordinatorMessages
    /\ stub = Streams
    /\ faults = Calls

(* the host calls invoke(payload): the token is decoded and the            *)
(* coordinator is called, or the decoding raises                           *)
Invoke(c) ==
    /\ calls[c].pc = "idle"
    /\ payload[c] # NoRequest
    /\ calls' = [calls EXCEPT ![c] = invoke_entry(payload[c])]
    /\ UNCHANGED <<issued, payload, replies, stub, faults>>

(* the coordinator answers: invoke returns the reply or starts delegating  *)
CoordinatorReply(c) ==
    /\ calls[c].pc = "coordinator"
    /\ \E reply \in replies, u \in uuid4(issued) :
          LET f == invoke_resume(calls[c], reply, u) IN
          /\ calls' = [calls EXCEPT ![c] = f]
          /\ issued' = IF f.session_id = uuid_str(u)
                       THEN issued \cup {u} ELSE issued
    /\ UNCHANGED <<payload, replies, stub, faults>>

(* the call of the coordinator raises: nothing in invoke catches it *)
CoordinatorFail(c) ==
    /\ calls[c].pc = "coordinator"
    /\ c \in faults
    /\ calls' = [calls EXCEPT ![c] = Raise(calls[c], "CoordinatorError")]
    /\ UNCHANGED <<issued, payload, replies, stub, faults>>

(* time passes while a network operation of the pending request waits *)
Tick(c) ==
    /\ Waiting(c)
    /\ c \in faults
    /\ calls[c].waited < DEFAULT_TIMEOUT
    /\ calls[c].elapsed < MaxElapsed
    /\ calls' = [calls EXCEPT ![c].waited = @ + TickSeconds,
                              ![c].elapsed = @ + TickSeconds]
    /\ UNCHANGED <<issued, payload, replies, stub, faults>>

(* a network operation of the pending request (taking a connection from    *)
(* the pool, connecting, writing, one read) completes and the next begins: *)
(* the timeout of the httpx client applies to each of them on its own      *)
NextOperation(c) ==
    /\ Waiting(c)
    /\ calls[c].waited > 0
    /\ calls[c].waited < DEFAULT_TIMEOUT
    /\ calls' = [calls EXCEPT ![c].waited = 0]
    /\ UNCHANGED <<issued, payload, replies, stub, faults>>

(* a network operation has waited for the timeout of the httpx client *)
Timeout(c) ==
    /\ Waiting(c)
    /\ calls[c].waited >= DEFAULT_TIMEOUT
    /\ calls' = [calls EXCEPT
                    ![c] = IF calls[c].pc = "discovery"
                           THEN ResolveFailed(calls[c], "TimeoutError")
                           ELSE Fail(calls[c], "TimeoutError")]
    /\ UNCHANGED <<issued, payload, replies, stub, faults>>

(* the agent card arrives: the call goes on to dispatch the message *)
DiscoveryOk(c) ==
    /\ calls[c].pc = "discovery"
    /\ calls[c].waited < DEFAULT_TIMEOUT
    /\ \E u \in uuid4(issued) :
          /\ calls' = [calls EXCEPT
                          ![c] = Dispatch([calls[c] EXCEPT !.card = "resolved"], u)]
          /\ issued' = issued \cup {u}
    /\ UNCHANGED <<payload, replies, stub, faults>>

(* the agent card cannot be fetched or parsed *)
DiscoveryFail(c) ==
    /\ calls[c].pc = "discovery"
    /\ c \in faults
    /\ calls[c].waited < DEFAULT_TIMEOUT
    /\ \E err \in TransportErrors :
          calls' = [calls EXCEPT ![c] = ResolveFailed(calls[c], err)]
    /\ UNCHANGED <<issued, payload, replies, stub, faults>>

(* the transport answers the dispatch: the loop takes the first event *)
DispatchResponse(c) ==
    /\ calls[c].pc = "dispatch"
    /\ calls[c].waited < DEFAULT_TIMEOUT
    /\ \E events \in stub :
          calls' = [calls EXCEPT ![c] = Receive(calls[c], events)]
    /\ UNCHANGED <<issued, payload, replies, stub, faults>>

(* the connection fails while the dispatch is pending *)
DispatchFail(c) ==
    /\ calls[c].pc = "dispatch"
    /\ c \in faults
    /\ calls[c].waited < DEFAULT_TIMEOUT
    /\ calls' = [calls EXCEPT ![c] = Fail(calls[c], "TransportError")]
    /\ UNCHANGED <<issued, payload, replies, stub, faults>>

(* the await of the client's __aexit__ completes: invoke returns or raises *)
Close(c) ==
    /\ calls[c].pc = "closing"
    /\ calls' = [calls EXCEPT ![c] = Closed(calls[c])]
    /\ UNCHANGED <<issued, payload, replies, stub, faults>>

(* the host cancels the call at an await *)
Cancel(c) ==
    /\ Suspended(c)
    /\ c \in faults
    /\ calls' = [calls EXCEPT ![c] = Cancelled(calls[c])]
    /\ UNCHANGED <<issued, payload, replies, stub, faults>>

Next ==
    \E c \in Calls :
        \/ Invoke(c)
        \/ CoordinatorReply(c)
        \/ CoordinatorFail(c)
        \/ Tick(c)
        \/ NextOperation(c)
        \/ Timeout(c)
        \/ DiscoveryOk(c)
        \/ DiscoveryFail(c)
        \/ DispatchResponse(c)
        \/ DispatchFail(c)
        \/ Close(c)
        \/ Cancel(c)

Spec == Init /\ [][Next]_vars

(* several requests in flight at once, each delegating; the coordinator,   *)
(* the remote endpoint or the host misbehave for one of them, any of them  *)
ConcPayload ==
    [prompt |-> P_DeleteBob,
     accessToken |-> TokenStr(3, PyDict(<< <<PyStr(<<115, 99, 111, 112, 101>>), PyStr(S_read_delete)>> >>))]

ConcReplies == { AssistantMessage(<<111, 107>>) }

ConcStreams == { <<Message("agent", <<Part(TextPart(<<52, 50>>))>>, uuid_hex(0))>> }

InitConc ==
    /\ calls = [c \in Calls |-> IdleCall]
    /\ issued = {}
    /\ payload = [c \in Calls |-> ConcPayload]
    /\ replies = ConcReplies
    /\ stub = ConcStreams
    /\ faults \in { {c} : c \in Calls }

SpecConc == InitConc /\ [][Next]_vars

---------------------------------------------------------------------------
(* Properties *)

Ended(c) == calls[c].pc \in {"returned", "raised", "cancelled"}

DelegationErrors == {"DiscoveryError", "TransportError", "TimeoutError"}

(* C1: a discovery, timeout or transport failure never escapes invoke as a *)
(* raised error: the call returns normally with a failure text.            *)
C1_FailureReturnsText ==
    \A c \in Calls :
        calls[c].error \in DelegationErrors
            => /\ calls[c].pc = "returned"
               /\ calls[c].response # NoResponse

(* C2: the dispatch request is issued only after the capability resolution *)
(* of the same call succeeded. A resolution that fails (an error of the    *)
(* request, or its timeout) is not retried, issues no dispatch and is not  *)
(* replaced by a default card; its exception leaves the call: it is in     *)
(* flight while the client closes and is what the call raises, unless the  *)
(* host cancels the call during that close, and then the call ends         *)
(* cancelled; in no case does the call return a value.                     *)
C2_DispatchOnlyAfterResolution ==
    \A c \in Calls :
        /\ calls[c].dispatchCalls > 0 => calls[c].card = "resolved"
        /\ calls[c].resolveCalls <= 1
        /\ calls[c].pc = "discovery" => calls[c].dispatchCalls = 0
        /\ calls[c].resolveError # "none"
              => /\ calls[c].dispatchCalls = 0
                 /\ calls[c].resolveCalls = 1
                 /\ calls[c].card = "none"
                 /\ calls[c].result = NoResult
                 /\ calls[c].response = NoResponse
                 /\ calls[c].pc \in {"closing", "raised", "cancelled"}
                 /\ calls[c].pc = "closing"
                       => calls[c].inflight = calls[c].resolveError
                 /\ calls[c].pc = "raised"
                       => calls[c].error = calls[c].resolveError
                 /\ calls[c].pc = "cancelled"
                       => calls[c].error = "CancelledError"

(* the discovery failed and the call was cancelled while its client closed *)
C2_Witness ==
    \E c \in Calls :
        /\ calls[c].resolveError = "DiscoveryError"
        /\ calls[c].pc = "cancelled"
        /\ calls[c].resolveCalls = 1
        /\ calls[c].dispatchCalls = 0

IsMessageRecord(e) == e.kind = "Message"

IsTaskPair(e) ==
    /\ e.kind = "tuple"
    /\ Len(e.items) = 2
    /\ e.items[1].kind = "Task"
    /\ e.items[2].kind \in {"None", "TaskStatusUpdateEvent"}

(* what the rules of the claim hand back for an event *)
Preserved(e) ==
    IF ~IsMessageRecord(e) /\ IsTaskPair(e) THEN e.items[1] ELSE e

(* C3: every event taken from the transport falls in exactly one of the    *)
(* three cases, by the rules in order: a message record is a FinalMessage, *)
(* else a (task, optional update) pair is a TaskUpdate, else the event is  *)
(* Opaque and is handed back as it is; the classification drops no event:  *)
(* its value is the one being returned, unless the call is cancelled while *)
(* the client closes.                                                      *)
C3_ClassifiedExactlyOnce ==
    \A c \in Calls :
        calls[c].consumed > 0 =>
            LET e == calls[c].event IN
            /\ calls[c].class \in {"FinalMessage", "TaskUpdate", "Opaque"}
            /\ (calls[c].class = "FinalMessage") <=> IsMessageRecord(e)
            /\ (calls[c].class = "TaskUpdate")
                  <=> (~IsMessageRecord(e) /\ IsTaskPair(e))
            /\ (calls[c].class = "Opaque")
                  <=> (~IsMessageRecord(e) /\ ~IsTaskPair(e))
            /\ calls[c].pc \in {"closing", "returned", "cancelled"}
            /\ calls[c].pc = "closing" => calls[c].pending = Preserved(e)
            /\ calls[c].pc = "returned" => calls[c].result = Preserved(e)
            /\ calls[c].pc = "cancelled" => calls[c].error = "CancelledError"

(* a part that carries text, whichever attribute holds it *)
CarriesText(p) ==
    \/ hasattr(p, "root") /\ hasattr(p.root, "text")
    \/ hasattr(p, "content") /\ hasattr(p.content, "text")

TextOf(p) == IF hasattr(p, "root") THEN p.root.text ELSE p.content.text

RECURSIVE FirstText(_)
FirstText(parts) ==
    IF parts = <<>> THEN <<>>
    ELSE IF CarriesText(Head(parts)) THEN TextOf(Head(parts))
    ELSE FirstText(Tail(parts))

(* C4: when the event is a FinalMessage, the text returned is the text of  *)
(* the first part, in part order, that carries text, and "" if none does.  *)
C4_FinalMessageText ==
    \A c \in Calls :
        (calls[c].pc = "returned" /\ calls[c].class = "FinalMessage")
            => calls[c].response = [response |-> FirstText(calls[c].event.parts)]

(* C5: a call that went through send_sync_message and completed without   *)
(* error has taken exactly one event from the transport.                   *)
C5_ExactlyOneEvent ==
    \A c \in Calls :
        (calls[c].pc = "returned" /\ calls[c].dispatchCalls > 0)
            => calls[c].consumed = 1

(* C6: for an event that is neither FinalMessage nor TaskUpdate the text   *)
(* returned is the string form of the event and is never empty.            *)
C6_OpaqueTextNeverEmpty ==
    \A c \in Calls :
        (calls[c].pc = "returned" /\ calls[c].class = "Opaque")
            => /\ calls[c].response = [response |-> Str(calls[c].event)]
               /\ calls[c].response.response # <<>>

(* C7: a call has one session identifier, carried by its discovery request *)
(* and by its dispatch request; the identifiers of different calls differ, *)
(* so no request of a call carries the identifier of another call.         *)
C7_SessionPerCall ==
    \A c \in Calls :
        /\ calls[c].resolveCalls > 0
              => /\ calls[c].session_id.uuid \in issued
                 /\ calls[c].discHdr.SessionId = calls[c].session_id
        /\ calls[c].dispatchCalls > 0
              => calls[c].dispHdr.SessionId = calls[c].session_id
        /\ \A d \in Calls \ {c} :
              (calls[c].resolveCalls > 0 /\ calls[d].resolveCalls > 0)
                  => /\ calls[c].session_id # calls[d].session_id
                     /\ calls[c].discHdr.SessionId # calls[d].session_id
                     /\ calls[c].dispatchCalls > 0
                           => calls[c].dispHdr.SessionId # calls[d].session_id

C7_Witness ==
    \E c \in Calls : \E d \in Calls \ {c} :
        /\ calls[c].pc = "dispatch"
        /\ calls[d].pc = "dispatch"
        /\ calls[c].dispHdr.SessionId # calls[d].dispHdr.SessionId

(* C8: the timeout is one overall deadline of the call: no call is still   *)
(* running, or ends, later than DEFAULT_TIMEOUT after it began.            *)
C8_OverallDeadline ==
    \A c \in Calls : calls[c].elapsed <= DEFAULT_TIMEOUT

HasDeleteScope(tok) ==
    /\ ~Falsy(tok)
    /\ jwt_decode(tok).ok
    /\ InList(PyStr(S_delete), ScopeList(GetScope(jwt_decode(tok).decoded)))

(* C10: a message is dispatched only for a non-empty token and, for a      *)
(* delete prompt, a scope claim containing delete; a request without a     *)
(* token, or a delete request without that scope, ends with the reply of   *)
(* the coordinator and no dispatch; on a dispatching path the coordinator  *)
(* ran first and its reply is what is sent.                                *)
C10_DeleteGate ==
    \A c \in Calls :
        (payload[c] # NoRequest /\ Ended(c)) =>
            LET tok == payload[c].accessToken
                isDelete == extract_operation_type(payload[c].prompt) = "delete"
            IN
            /\ calls[c].dispatchCalls > 0
                  => /\ ~Falsy(tok)
                     /\ isDelete => HasDeleteScope(tok)
                     /\ calls[c].coordCalls = 1
                     /\ calls[c].coordArg = "user_message"
                     /\ calls[c].dispatched.role = "user"
                     /\ calls[c].dispatched.parts
                           = <<Part(TextPart(Str(calls[c].reply)))>>
            /\ (Falsy(tok) \/ (isDelete /\ ~HasDeleteScope(tok)))
                  => /\ calls[c].pc = "returned"
                     /\ calls[c].coordCalls = 1
                     /\ calls[c].response = [response |-> Str(calls[c].reply)]
                     /\ calls[c].dispatchCalls = 0

====
